---- MODULE Spec2Model ----
(***************************************************************************)
(* A model of src/src/JobPostImageGenerator.jsx: the word wrapper, the     *)
(* paragraph and table font fitters, the parsing of the raw text, the      *)
(* passes over the presets, and the logo / redraw callbacks of the         *)
(* component.                                                              *)
(*                                                                         *)
(* Strings are sequences of one-character strings.  Widths are in tenths   *)
(* of a pixel, heights in pixels.                                          *)
(***************************************************************************)
EXTENDS Integers, Sequences, FiniteSets, TLC

VARIABLES
    \* word wrapper: wrapByWidth(ctx, text, maxW) and a second wrap of its lines
    wText, wMaxW, wFont, wLines, wRewrapped, wPc,
    \* fitFontBinaryParagraph: its arguments and its result
    pArgs, pResult, pPc,
    \* fitFontBinaryTable: its arguments and its result
    tArgs, tResult, tPc,
    \* drawOne, "parse lines": the raw text and the parsed content
    rawText, content, parsePc,
    \* one pass over PRESETS (renderPreviews or downloadAll)
    passKind, passIdx, attempted, mounted,
    \* the component: state, refs, pending callbacks, preview canvases
    text, bgA, bgB, textColor, fontFamily, logoDataUrl, logoImgRef,
    readers, loading, timers, waiting, fontsReady, canvas, events

wrapVars  == <<wText, wMaxW, wFont, wLines, wRewrapped, wPc>>
paraVars  == <<pArgs, pResult, pPc>>
tableVars == <<tArgs, tResult, tPc>>
parseVars == <<rawText, content, parsePc>>
passVars  == <<passKind, passIdx, attempted, mounted>>
uiVars    == <<text, bgA, bgB, textColor, fontFamily, logoDataUrl, logoImgRef,
               readers, loading, timers, waiting, fontsReady, canvas, events>>
vars == <<wrapVars, paraVars, tableVars, parseVars, passVars, uiVars>>

\* what each part of the program leaves alone
nonWrapVars  == <<paraVars, tableVars, parseVars, passVars, uiVars>>
nonParaVars  == <<wrapVars, tableVars, parseVars, passVars, uiVars>>
nonTableVars == <<wrapVars, paraVars, parseVars, passVars, uiVars>>
nonParseVars == <<wrapVars, paraVars, tableVars, passVars, uiVars>>
nonPassVars  == <<wrapVars, paraVars, tableVars, parseVars, uiVars>>
nonUiVars    == <<wrapVars, paraVars, tableVars, parseVars, passVars>>

----------------------------------------------------------------------------
(* Bounds of the model *)

\* longest text handed to the word wrapper
MaxTextLen == 5
\* widest wrap width, in units of ten tenths of a pixel
MaxWrapUnits == 4
\* largest font size of the wrapper's measuring font
MaxWrapPx == 2

----------------------------------------------------------------------------
(* Helpers *)

Max2(a, b) == IF a >= b THEN a ELSE b

SetMax(S) == CHOOSE x \in S : \A y \in S : y <= x

RECURSIVE SeqsUpTo(_, _)
\* all sequences over S of length at most n
SeqsUpTo(S, n) ==
    IF n = 0 THEN {<<>>}
    ELSE LET shorter == SeqsUpTo(S, n - 1)
         IN  shorter \cup {Append(s, c) : s \in {q \in shorter : Len(q) = n - 1}, c \in S}

RECURSIVE Flatten(_)
\* the concatenation of a sequence of strings
Flatten(ss) == IF ss = <<>> THEN <<>> ELSE Head(ss) \o Flatten(Tail(ss))

----------------------------------------------------------------------------
(* The text measurer (ctx.measureText under ctx.font) *)

IsSpace(ch) == ch \in {" ", "\n", "\r", "\t"}

\* advance of one character at 1px, regular weight
CharUnits(ch) == IF ch = "b" THEN 2 ELSE 1

RECURSIVE SumUnits(_)
SumUnits(s) == IF s = <<>> THEN 0 ELSE CharUnits(Head(s)) + SumUnits(Tail(s))

\* width of s under font [px, weight], in tenths of a pixel: linear in the
\* font size, a tenth wider in semi-bold
measureText(font, s) ==
    font.px * SumUnits(s) * (IF font.weight = 600 THEN 11 ELSE 10)

----------------------------------------------------------------------------
(* tokenizeWords and wrapByWidth *)

RECURSIVE TokenizeFrom(_, _, _, _)
TokenizeFrom(str, i, cur, out) ==
    IF i > Len(str)
    THEN (IF cur = <<>> THEN out ELSE Append(out, cur))
    ELSE IF IsSpace(str[i])
         THEN TokenizeFrom(str, i + 1, <<>>, IF cur = <<>> THEN out ELSE Append(out, cur))
         ELSE TokenizeFrom(str, i + 1, Append(cur, str[i]), out)

\* (text || "").split(/\s+/).filter(Boolean)
tokenizeWords(str) == TokenizeFrom(str, 1, <<>>, <<>>)

RECURSIVE SplitCharsDrop(_, _, _, _, _, _)
\* SplitChars without the push of the closed chunk
SplitCharsDrop(font, t, maxW, k, chunk, lines) ==
    IF k > Len(t) THEN [lines |-> lines, chunk |-> chunk]
    ELSE LET test2 == Append(chunk, t[k])
         IN  IF measureText(font, test2) <= maxW
             THEN SplitCharsDrop(font, t, maxW, k + 1, test2, lines)
             ELSE SplitCharsDrop(font, t, maxW, k + 1, <<t[k]>>, lines)

RECURSIVE SplitChars(_, _, _, _, _, _)
\* the inner loop "for (const ch of t)": the lines pushed and the open chunk
SplitChars(font, t, maxW, k, chunk, lines) ==
    IF k > Len(t) THEN [lines |-> lines, chunk |-> chunk]
    ELSE LET test2 == Append(chunk, t[k])
         IN  IF measureText(font, test2) <= maxW
             THEN SplitChars(font, t, maxW, k + 1, test2, lines)
             ELSE SplitChars(font, t, maxW, k + 1, <<t[k]>>,
                             IF chunk # <<>> THEN Append(lines, chunk) ELSE lines)

RECURSIVE WrapTokens(_, _, _, _, _, _)
\* the loop over the tokens, then the push of the last open line
WrapTokens(font, tokens, maxW, i, line, lines) ==
    IF i > Len(tokens)
    THEN (IF line # <<>> THEN Append(lines, line) ELSE lines)
    ELSE LET t    == tokens[i]
             test == IF line # <<>> THEN line \o <<" ">> \o t ELSE t
         IN  IF measureText(font, test) <= maxW
             THEN WrapTokens(font, tokens, maxW, i + 1, test, lines)
             ELSE IF line # <<>>
                  THEN WrapTokens(font, tokens, maxW, i + 1, t, Append(lines, line))
                  ELSE LET r == SplitChars(font, t, maxW, 1, <<>>, lines)
                       IN  WrapTokens(font, tokens, maxW, i + 1, r.chunk, r.lines)

wrapByWidth(font, str, maxW) ==
    IF str = <<>> THEN <<>>
    ELSE WrapTokens(font, tokenizeWords(str), maxW, 1, <<>>, <<>>)

----------------------------------------------------------------------------
(* The word wrapper applied to bounded inputs *)

WrapAlphabet == {"a", "b", " "}
WrapTexts    == SeqsUpTo(WrapAlphabet, MaxTextLen)
WrapWidths   == {10 * k : k \in 1..MaxWrapUnits}
WrapFonts    == [px : 1..MaxWrapPx, weight : {400, 600}]

\* lines = wrapByWidth(ctx, text, maxW)
Wrap ==
    /\ wPc = "input"
    /\ wLines' = wrapByWidth(wFont, wText, wMaxW)
    /\ wPc' = "wrapped"
    /\ UNCHANGED <<wText, wMaxW, wFont, wRewrapped>>
    /\ UNCHANGED nonWrapVars

\* each returned line wrapped again as a paragraph of its own
Rewrap ==
    /\ wPc = "wrapped"
    /\ wRewrapped' = [i \in 1..Len(wLines) |-> wrapByWidth(wFont, wLines[i], wMaxW)]
    /\ wPc' = "rewrapped"
    /\ UNCHANGED <<wText, wMaxW, wFont, wLines>>
    /\ UNCHANGED nonWrapVars

----------------------------------------------------------------------------
(* measureParagraph and fitFontBinaryParagraph *)

\* lineGap of the title and subtitle fits, in hundredths
ParagraphLineGapPct == 118
\* lineGap of the table fit, in hundredths
TableLineGapPct == 112
\* the gap between two rows, in hundredths of the line height
RowGapPct == 35

\* Math.ceil(px * lineGap)
CeilLineHeight(px, gapPct) == (px * gapPct + 99) \div 100

\* Math.round(lh * 0.35)
RoundRowGap(lh) == (lh * RowGapPct + 50) \div 100

Regular(px)  == [px |-> px, weight |-> 400]
SemiBold(px) == [px |-> px, weight |-> 600]

measureParagraph(font, str, maxW, lineHeight) ==
    LET lines == wrapByWidth(font, str, maxW)
    IN  [lines |-> lines, height |-> Len(lines) * lineHeight]

RECURSIVE ParagraphSearchDown(_, _, _, _, _, _, _)
\* ParagraphSearch that looks below a size that fits
ParagraphSearchDown(str, maxW, maxH, gapPct, lo, hi, best) ==
    IF lo > hi THEN best
    ELSE LET mid == (lo + hi) \div 2
             m   == measureParagraph(Regular(mid), str, maxW, CeilLineHeight(mid, gapPct))
         IN  IF m.height <= maxH
             THEN ParagraphSearchDown(str, maxW, maxH, gapPct, lo, mid - 1, mid)
             ELSE ParagraphSearchDown(str, maxW, maxH, gapPct, lo, mid - 1, best)

RECURSIVE ParagraphSearch(_, _, _, _, _, _, _)
\* the loop "while (lo <= hi)": the value of best when it ends
ParagraphSearch(str, maxW, maxH, gapPct, lo, hi, best) ==
    IF lo > hi THEN best
    ELSE LET mid == (lo + hi) \div 2
             m   == measureParagraph(Regular(mid), str, maxW, CeilLineHeight(mid, gapPct))
         IN  IF m.height <= maxH
             THEN ParagraphSearch(str, maxW, maxH, gapPct, mid + 1, hi, mid)
             ELSE ParagraphSearch(str, maxW, maxH, gapPct, lo, mid - 1, best)

fitFontBinaryParagraph(str, maxW, maxH, minPx, maxPx, gapPct) ==
    LET best  == ParagraphSearch(str, maxW, maxH, gapPct, minPx, maxPx, minPx)
        lh    == CeilLineHeight(best, gapPct)
        final == measureParagraph(Regular(best), str, maxW, lh)
    IN  [fontPx |-> best, lineHeight |-> lh, lines |-> final.lines]

\* longest paragraph handed to the paragraph fitter
MaxParaLen == 4
\* largest font size of the fitters' ranges
MaxFitPx == 4
\* tallest paragraph zone, in pixels
MaxParaH == 10
\* widest paragraph zone, in units of twenty tenths of a pixel
MaxParaWUnits == 2

ParaTexts == SeqsUpTo(WrapAlphabet, MaxParaLen)

FitParagraph ==
    /\ pPc = "input"
    /\ pResult' = fitFontBinaryParagraph(pArgs.str, pArgs.maxW, pArgs.maxH,
                                         pArgs.minPx, pArgs.maxPx, ParagraphLineGapPct)
    /\ pPc' = "done"
    /\ UNCHANGED pArgs
    /\ UNCHANGED nonParaVars

----------------------------------------------------------------------------
(* fitFontBinaryTable *)

\* one row wrapped at a candidate size: the body of "for (const r of rows)"
WrapRow(px, r, colLeftW, colRightW, lh) ==
    LET leftLines  == wrapByWidth(SemiBold(px), r.key, colLeftW)
        rightLines == wrapByWidth(Regular(px), r.value, colRightW)
    IN  [left |-> leftLines, right |-> rightLines,
         rowH |-> Max2(Len(leftLines), Len(rightLines)) * lh]

RECURSIVE SumRowsNoGap(_, _)
\* SumRows without the gap added after each row
SumRowsNoGap(wrapped, lh) ==
    IF wrapped = <<>> THEN 0
    ELSE Head(wrapped).rowH + SumRowsNoGap(Tail(wrapped), lh)

RECURSIVE SumRows(_, _)
\* totalH as the loop over the rows leaves it: each row and a gap after it
SumRows(wrapped, lh) ==
    IF wrapped = <<>> THEN 0
    ELSE Head(wrapped).rowH + RoundRowGap(lh) + SumRows(Tail(wrapped), lh)

\* totalH of a candidate size, the last gap taken off again
TableTotalH(wrapped, lh) ==
    LET totalH == SumRows(wrapped, lh)
    IN  IF totalH > 0 THEN totalH - RoundRowGap(lh) ELSE totalH

NoResult == [fontPx |-> 0, lineHeight |-> 0, wrapped |-> <<>>, found |-> FALSE]

RECURSIVE TableSearch(_, _, _, _, _, _, _, _, _)
\* the loop "while (lo <= hi)": bestResult and ctx.font when it ends
TableSearch(rows, colLeftW, colRightW, maxH, gapPct, lo, hi, bestResult, ctxFont) ==
    IF lo > hi THEN [best |-> bestResult, font |-> ctxFont]
    ELSE LET mid     == (lo + hi) \div 2
             lh      == CeilLineHeight(mid, gapPct)
             wrapped == [i \in 1..Len(rows) |-> WrapRow(mid, rows[i], colLeftW, colRightW, lh)]
             font    == IF rows = <<>> THEN ctxFont ELSE Regular(mid)
         IN  IF TableTotalH(wrapped, lh) <= maxH
             THEN TableSearch(rows, colLeftW, colRightW, maxH, gapPct, mid + 1, hi,
                              [fontPx |-> mid, lineHeight |-> lh, wrapped |-> wrapped,
                               found |-> TRUE], font)
             ELSE TableSearch(rows, colLeftW, colRightW, maxH, gapPct, lo, mid - 1,
                              bestResult, font)

\* one row of the fallback: wrapped under the font the loop left in ctx
FallbackRow(ctxFont, r, colLeftW, colRightW) ==
    [left  |-> wrapByWidth(ctxFont, r.key, colLeftW),
     right |-> wrapByWidth(ctxFont, r.value, colRightW),
     rowH  |-> Max2(1, Max2(Len(wrapByWidth(ctxFont, r.key, colLeftW)),
                            Len(wrapByWidth(ctxFont, r.value, colRightW))))]

fitFontBinaryTable(ctxFont, rows, colLeftW, colRightW, maxH, minPx, maxPx, gapPct) ==
    LET s == TableSearch(rows, colLeftW, colRightW, maxH, gapPct, minPx, maxPx,
                         NoResult, ctxFont)
    IN  IF s.best.found
        THEN [fontPx |-> s.best.fontPx, lineHeight |-> s.best.lineHeight,
              wrapped |-> s.best.wrapped]
        ELSE [fontPx |-> minPx, lineHeight |-> CeilLineHeight(minPx, gapPct),
              wrapped |-> [i \in 1..Len(rows) |->
                              FallbackRow(s.font, rows[i], colLeftW, colRightW)]]

\* most rows of a table
MaxRows == 2
\* tallest table zone, in pixels
MaxTableH == 12

\* the rows tables are made of: short cells, cells of two words, a long
\* word in either column, an empty row
TableRows ==
    { [key |-> <<"a">>,           value |-> <<"a", " ", "b">>],
      [key |-> <<"a", " ", "b">>, value |-> <<"b", "b", "b">>],
      [key |-> <<"b", "b", "b">>, value |-> <<"a">>],
      [key |-> <<"b">>,           value |-> <<>>],
      [key |-> <<>>,              value |-> <<>>] }

\* the call of drawOne: ctx.font is the subtitle's font when the fit starts
FitTable ==
    /\ tPc = "input"
    /\ tResult' = fitFontBinaryTable(SemiBold(tArgs.maxPx), tArgs.rows, tArgs.colLeftW,
                                     tArgs.colRightW, tArgs.maxH, tArgs.minPx,
                                     tArgs.maxPx, TableLineGapPct)
    /\ tPc' = "done"
    /\ UNCHANGED tArgs
    /\ UNCHANGED nonTableVars

----------------------------------------------------------------------------
(* drawOne, "parse lines" *)

\* .replace(/\r/g, "")
StripCR(str) == SelectSeq(str, LAMBDA c : c # "\r")

RECURSIVE SplitFrom(_, _, _, _)
SplitFrom(str, i, cur, out) ==
    IF i > Len(str) THEN Append(out, cur)
    ELSE IF str[i] = "\n"
         THEN SplitFrom(str, i + 1, <<>>, Append(out, cur))
         ELSE SplitFrom(str, i + 1, Append(cur, str[i]), out)

\* .split("\n"): one more piece than there are line breaks
SplitLines(str) == SplitFrom(str, 1, <<>>, <<>>)

RECURSIVE TrimStart(_)
TrimStart(str) ==
    IF str # <<>> /\ IsSpace(Head(str)) THEN TrimStart(Tail(str)) ELSE str

RECURSIVE TrimEnd(_)
TrimEnd(str) ==
    IF str # <<>> /\ IsSpace(str[Len(str)])
    THEN TrimEnd(SubSeq(str, 1, Len(str) - 1)) ELSE str

\* l.trim()
Trim(str) == TrimEnd(TrimStart(str))

\* (inputText || "").replace(/\r/g, "").split("\n").map(l => l.trim()).filter(Boolean)
parseLines(str) ==
    LET pieces == SplitLines(StripCR(str))
    IN  SelectSeq([i \in 1..Len(pieces) |-> Trim(pieces[i])], LAMBDA l : l # <<>>)

\* lines[i] || "", i counted from 0 as the code counts
LineAt(lines, i) == IF i + 1 <= Len(lines) THEN lines[i + 1] ELSE <<>>

RECURSIVE PairLoopByOne(_, _, _)
\* PairLoop with i advanced by one
PairLoopByOne(lines, i, pairs) ==
    IF ~(i < Len(lines)) THEN pairs
    ELSE LET k == LineAt(lines, i)
             v == LineAt(lines, i + 1)
         IN  PairLoopByOne(lines, i + 1,
                           IF k # <<>> \/ v # <<>>
                           THEN Append(pairs, [key |-> k, value |-> v]) ELSE pairs)

RECURSIVE PairLoop(_, _, _)
\* for (let i = 2; i < lines.length; i += 2)
PairLoop(lines, i, pairs) ==
    IF ~(i < Len(lines)) THEN pairs
    ELSE LET k == LineAt(lines, i)
             v == LineAt(lines, i + 1)
         IN  PairLoop(lines, i + 2,
                      IF k # <<>> \/ v # <<>>
                      THEN Append(pairs, [key |-> k, value |-> v]) ELSE pairs)

parseContent(str) ==
    LET lines == parseLines(str)
    IN  [title |-> LineAt(lines, 0), subtitle |-> LineAt(lines, 1),
         pairs |-> PairLoop(lines, 2, <<>>)]

\* most lines of a raw text
MaxRawLines == 6

\* the lines raw texts are made of: spaces only, padded, with a carriage
\* return, of two words
RawLinePool == { <<" ">>, <<" ", "a", " ">>, <<"b", "\r">>, <<"a", " ", "b">> }

RECURSIVE JoinLines(_)
JoinLines(ls) ==
    IF ls = <<>> THEN <<>>
    ELSE IF Len(ls) = 1 THEN Head(ls)
    ELSE Head(ls) \o <<"\n">> \o JoinLines(Tail(ls))

RawTexts == {JoinLines(ls) : ls \in SeqsUpTo(RawLinePool, MaxRawLines)}

Parse ==
    /\ parsePc = "input"
    /\ content' = parseContent(rawText)
    /\ parsePc' = "done"
    /\ UNCHANGED rawText
    /\ UNCHANGED nonParseVars

----------------------------------------------------------------------------
(* One pass over PRESETS: renderPreviews and downloadAll *)

\* PRESETS, in order: ig_post, ig_story, yt_thumb, linkedin, fb_post
NumPresets == 5
Presets == 1..NumPresets

\* renderPreviews is called: the loop is before its first preset
StartPreviews ==
    /\ passKind = "none"
    /\ passKind' = "preview"
    /\ passIdx' = 1
    /\ UNCHANGED <<attempted, mounted>>
    /\ UNCHANGED nonPassVars

\* one turn of the loop of renderPreviews: no canvas, or drawOne inside try
PreviewStep ==
    /\ passKind = "preview"
    /\ passIdx <= NumPresets
    /\ \/ /\ passIdx \notin mounted
          /\ UNCHANGED attempted
       \/ /\ passIdx \in mounted
          /\ \E outcome \in {"drawn", "threw"} :
                attempted' = [attempted EXCEPT ![passIdx] = outcome]
    /\ passIdx' = passIdx + 1
    /\ UNCHANGED <<passKind, mounted>>
    /\ UNCHANGED nonPassVars

\* the click on Download All: the loop is before its first preset
StartDownloadAll ==
    /\ passKind = "none"
    /\ passKind' = "download"
    /\ passIdx' = 1
    /\ UNCHANGED <<attempted, mounted>>
    /\ UNCHANGED nonPassVars

\* one turn of the loop of downloadAll: downloadOne draws and saves, or
\* drawOne throws, downloadOne rejects and the loop is left
DownloadStep ==
    /\ passKind = "download"
    /\ passIdx <= NumPresets
    /\ \/ /\ attempted' = [attempted EXCEPT ![passIdx] = "drawn"]
          /\ passIdx' = passIdx + 1
          /\ UNCHANGED passKind
       \/ /\ attempted' = [attempted EXCEPT ![passIdx] = "threw"]
          /\ passKind' = "aborted"
          /\ UNCHANGED passIdx
    /\ UNCHANGED mounted
    /\ UNCHANGED nonPassVars

PassOver ==
    \/ passKind \in {"preview", "download"} /\ passIdx > NumPresets
    \/ passKind = "aborted"

----------------------------------------------------------------------------
(* The component: state, effects, timers, image and reader callbacks *)

\* most user events (edits, uploads, clicks) and font loads of one run
MaxEvents == 3

\* delay of the redraw effect's timer, in milliseconds
DebounceMs == 60

TextValues  == {"DEFAULT_TEXT", "edited"}
ColorValues == {"c0", "c1"}
FontValues  == {"Noto Sans", "system-ui"}
\* the files a user picks; a data URL is named by its file, an image by its URL
Files  == {"f1", "f2", "broken"}
NoLogo == "null"
Decodes(url) == url # "broken"

\* what a render's renderPreviews closes over
Snap == [text |-> text, bgA |-> bgA, bgB |-> bgB, textColor |-> textColor,
         fontFamily |-> fontFamily]

Blank == [text |-> "none", bgA |-> "none", bgB |-> "none", textColor |-> "none",
          fontFamily |-> "none", logoImg |-> "none"]

RemoveAt(seq, i) == SubSeq(seq, 1, i - 1) \o SubSeq(seq, i + 1, Len(seq))

\* clearTimeout(id) of the redraw effect's cleanup
ClearDebounce(ts) == SelectSeq(ts, LAMBDA t : t.delay # DebounceMs)

\* opts of renderPreviews: the closure's state and logoImgRef.current
OptsOf(snap, logoImg) ==
    [text |-> snap.text, bgA |-> snap.bgA, bgB |-> snap.bgB,
     textColor |-> snap.textColor, fontFamily |-> snap.fontFamily, logoImg |-> logoImg]

\* the canvases after the passes of `snaps` ran, in order, with fonts ready:
\* every pass draws every preview canvas, so the last pass is what shows
AfterPasses(cv, snaps, logoImg) ==
    IF snaps = <<>> THEN cv
    ELSE [p \in Presets |-> OptsOf(snaps[Len(snaps)], logoImg)]

\* renderPreviews() of closure snap: runs through if document.fonts.ready is
\* resolved, else waits on it
RenderPreviews(snap, logoImg) ==
    IF fontsReady
    THEN /\ canvas' = AfterPasses(canvas, <<snap>>, logoImg)
         /\ UNCHANGED waiting
    ELSE /\ waiting' = Append(waiting, snap)
         /\ UNCHANGED canvas

\* the effects after a render in which an edited input changed: the redraw
\* effect's cleanup and its new timer
AfterEdit(snap) ==
    /\ timers' = Append(ClearDebounce(timers), [delay |-> DebounceMs, snap |-> snap])
    /\ UNCHANGED <<logoDataUrl, logoImgRef, readers, loading, waiting, fontsReady, canvas>>

SetText(v) ==
    /\ events < MaxEvents /\ v # text
    /\ text' = v
    /\ UNCHANGED <<bgA, bgB, textColor, fontFamily>>
    /\ AfterEdit([Snap EXCEPT !.text = v])
    /\ events' = events + 1
    /\ UNCHANGED nonUiVars

SetBgA(v) ==
    /\ events < MaxEvents /\ v # bgA
    /\ bgA' = v
    /\ UNCHANGED <<text, bgB, textColor, fontFamily>>
    /\ AfterEdit([Snap EXCEPT !.bgA = v])
    /\ events' = events + 1
    /\ UNCHANGED nonUiVars

SetBgB(v) ==
    /\ events < MaxEvents /\ v # bgB
    /\ bgB' = v
    /\ UNCHANGED <<text, bgA, textColor, fontFamily>>
    /\ AfterEdit([Snap EXCEPT !.bgB = v])
    /\ events' = events + 1
    /\ UNCHANGED nonUiVars

SetTextColor(v) ==
    /\ events < MaxEvents /\ v # textColor
    /\ textColor' = v
    /\ UNCHANGED <<text, bgA, bgB, fontFamily>>
    /\ AfterEdit([Snap EXCEPT !.textColor = v])
    /\ events' = events + 1
    /\ UNCHANGED nonUiVars

SetFontFamily(v) ==
    /\ events < MaxEvents /\ v # fontFamily
    /\ fontFamily' = v
    /\ UNCHANGED <<text, bgA, bgB, textColor>>
    /\ AfterEdit([Snap EXCEPT !.fontFamily = v])
    /\ events' = events + 1
    /\ UNCHANGED nonUiVars

\* setLogoDataUrl(url) and the effects of the render it causes, after the
\* timers `before` that the caller has set: the logo effect, then the redraw
\* effect.  The same value causes no render.
SetLogoDataUrl(url, ref, before) ==
    IF url = logoDataUrl
    THEN /\ logoImgRef' = ref
         /\ timers' = before
         /\ UNCHANGED <<logoDataUrl, loading>>
    ELSE /\ logoDataUrl' = url
         /\ IF url = NoLogo
            THEN /\ logoImgRef' = NoLogo
                 /\ UNCHANGED loading
                 /\ timers' = Append(Append(ClearDebounce(before),
                                            [delay |-> 0, snap |-> Snap]),
                                     [delay |-> DebounceMs, snap |-> Snap])
            ELSE /\ logoImgRef' = ref
                 /\ loading' = Append(loading, [url |-> url, snap |-> Snap])
                 /\ timers' = Append(ClearDebounce(before),
                                     [delay |-> DebounceMs, snap |-> Snap])

\* handleLogoFile: no file chosen, or a FileReader started on the file
HandleLogoFile(f) ==
    /\ events < MaxEvents
    /\ IF f = NoLogo
       THEN /\ SetLogoDataUrl(NoLogo, logoImgRef, timers)
            /\ UNCHANGED readers
       ELSE /\ readers' = Append(readers, f)
            /\ UNCHANGED <<logoDataUrl, logoImgRef, loading, timers>>
    /\ events' = events + 1
    /\ UNCHANGED <<text, bgA, bgB, textColor, fontFamily, waiting, fontsReady, canvas>>
    /\ UNCHANGED nonUiVars

\* reader.onload of the i-th pending read
ReaderLoaded(i) ==
    /\ i \in 1..Len(readers)
    /\ readers' = RemoveAt(readers, i)
    /\ SetLogoDataUrl(readers[i], logoImgRef, timers)
    /\ UNCHANGED <<text, bgA, bgB, textColor, fontFamily, waiting, fontsReady, canvas,
                   events>>
    /\ UNCHANGED nonUiVars

\* the click on Remove Logo
RemoveLogo ==
    /\ events < MaxEvents
    /\ SetLogoDataUrl(NoLogo, NoLogo, Append(timers, [delay |-> 0, snap |-> Snap]))
    /\ events' = events + 1
    /\ UNCHANGED <<text, bgA, bgB, textColor, fontFamily, readers, waiting, fontsReady,
                   canvas>>
    /\ UNCHANGED nonUiVars

\* img.onload or img.onerror of the i-th image still loading
ImageSettled(i) ==
    /\ i \in 1..Len(loading)
    /\ loading' = RemoveAt(loading, i)
    /\ logoImgRef' = IF Decodes(loading[i].url) THEN loading[i].url ELSE NoLogo
    /\ timers' = Append(timers, [delay |-> 0, snap |-> loading[i].snap])
    /\ UNCHANGED <<text, bgA, bgB, textColor, fontFamily, logoDataUrl, readers, waiting,
                   fontsReady, canvas, events>>
    /\ UNCHANGED nonUiVars

\* the i-th timer may run: timers of 0 ms run in the order they were set, and
\* before every timer of 60 ms set after them
TimerDue(i) ==
    \A j \in 1..(i - 1) : timers[j].delay # 0

\* the callback of the i-th timer: () => renderPreviews()
TimerFired(i) ==
    /\ i \in 1..Len(timers)
    /\ TimerDue(i)
    /\ timers' = RemoveAt(timers, i)
    /\ RenderPreviews(timers[i].snap, logoImgRef)
    /\ UNCHANGED <<text, bgA, bgB, textColor, fontFamily, logoDataUrl, logoImgRef,
                   readers, loading, fontsReady, events>>
    /\ UNCHANGED nonUiVars

\* document.fonts.ready resolves: the passes waiting on it run, in order
FontsLoaded ==
    /\ ~fontsReady
    /\ fontsReady' = TRUE
    /\ canvas' = AfterPasses(canvas, waiting, logoImgRef)
    /\ waiting' = <<>>
    /\ UNCHANGED <<text, bgA, bgB, textColor, fontFamily, logoDataUrl, logoImgRef,
                   readers, loading, timers, events>>
    /\ UNCHANGED nonUiVars

\* a font face starts loading: document.fonts.ready is a pending promise again
FontsLoading ==
    /\ fontsReady
    /\ events < MaxEvents
    /\ fontsReady' = FALSE
    /\ events' = events + 1
    /\ UNCHANGED <<text, bgA, bgB, textColor, fontFamily, logoDataUrl, logoImgRef,
                   readers, loading, timers, waiting, canvas>>
    /\ UNCHANGED nonUiVars

InitialSnap == [text |-> "DEFAULT_TEXT", bgA |-> "c0", bgB |-> "c1", textColor |-> "c0",
                fontFamily |-> "Noto Sans"]

\* no callback, timer or render pass is pending
Quiescent ==
    /\ readers = <<>> /\ loading = <<>> /\ timers = <<>> /\ waiting = <<>>

----------------------------------------------------------------------------
(* Specifications: one part of the program runs, the others stay idle *)

\* the state after construction when `part` is the part that runs: its inputs
\* are drawn from the bounded sets, the component is as its mount leaves it
\* (the logo effect's timer, the redraw effect's timer and the pass of the
\* mount effect, run or waiting for the fonts)
InitOf(part) ==
    /\ wText \in (IF part = "wrap" THEN WrapTexts ELSE {<<>>})
    /\ wMaxW \in (IF part = "wrap" THEN WrapWidths ELSE {10})
    /\ wFont \in (IF part = "wrap" THEN WrapFonts ELSE {Regular(1)})
    /\ wLines = <<>>
    /\ wRewrapped = <<>>
    /\ wPc = (IF part = "wrap" THEN "input" ELSE "idle")
    /\ pArgs \in (IF part = "paragraph"
                  THEN {a \in [str : ParaTexts, maxW : {20 * k : k \in 1..MaxParaWUnits},
                               maxH : 0..MaxParaH, minPx : 1..MaxFitPx,
                               maxPx : 1..MaxFitPx] : a.minPx <= a.maxPx}
                  ELSE {[str |-> <<>>, maxW |-> 20, maxH |-> 0, minPx |-> 1, maxPx |-> 1]})
    /\ pResult = [fontPx |-> 0, lineHeight |-> 0, lines |-> <<>>]
    /\ pPc = (IF part = "paragraph" THEN "input" ELSE "idle")
    /\ tArgs \in (IF part = "table"
                  THEN {a \in [rows : SeqsUpTo(TableRows, MaxRows), colLeftW : {40},
                               colRightW : {40, 60}, maxH : 0..MaxTableH,
                               minPx : 1..MaxFitPx, maxPx : 1..MaxFitPx] :
                           a.minPx <= a.maxPx}
                  ELSE {[rows |-> <<>>, colLeftW |-> 40, colRightW |-> 40, maxH |-> 0,
                         minPx |-> 1, maxPx |-> 1]})
    /\ tResult = [fontPx |-> 0, lineHeight |-> 0, wrapped |-> <<>>]
    /\ tPc = (IF part = "table" THEN "input" ELSE "idle")
    /\ rawText \in (IF part = "parse" THEN RawTexts ELSE {<<>>})
    /\ content = [title |-> <<>>, subtitle |-> <<>>, pairs |-> <<>>]
    /\ parsePc = (IF part = "parse" THEN "input" ELSE "idle")
    /\ passKind = (IF part = "pass" THEN "none" ELSE "idle")
    /\ passIdx = 0
    /\ attempted = [p \in Presets |-> "no"]
    \* canvasRefs.current holds a canvas or null under each preset's key
    /\ mounted \in (IF part = "pass" THEN SUBSET Presets ELSE {Presets})
    /\ text = InitialSnap.text
    /\ bgA = InitialSnap.bgA
    /\ bgB = InitialSnap.bgB
    /\ textColor = InitialSnap.textColor
    /\ fontFamily = InitialSnap.fontFamily
    /\ logoDataUrl = NoLogo
    /\ logoImgRef = NoLogo
    /\ readers = <<>>
    /\ loading = <<>>
    /\ events = (IF part = "ui" THEN 0 ELSE MaxEvents)
    /\ fontsReady \in (IF part = "ui" THEN BOOLEAN ELSE {TRUE})
    /\ timers = (IF part = "ui"
                 THEN <<[delay |-> 0, snap |-> InitialSnap],
                        [delay |-> DebounceMs, snap |-> InitialSnap]>>
                 ELSE <<>>)
    /\ waiting = (IF part = "ui" /\ ~fontsReady THEN <<InitialSnap>> ELSE <<>>)
    /\ canvas = (IF part = "ui" /\ fontsReady
                 THEN [p \in Presets |-> OptsOf(InitialSnap, NoLogo)]
                 ELSE [p \in Presets |-> Blank])

WrapNext == Wrap \/ Rewrap
SpecWrap == InitOf("wrap") /\ [][WrapNext]_vars

ParaNext == FitParagraph
SpecParagraph == InitOf("paragraph") /\ [][ParaNext]_vars

TableNext == FitTable
SpecTable == InitOf("table") /\ [][TableNext]_vars

ParseNext == Parse
SpecParse == InitOf("parse") /\ [][ParseNext]_vars

PassNext == StartPreviews \/ PreviewStep \/ StartDownloadAll \/ DownloadStep
SpecPass == InitOf("pass") /\ [][PassNext]_vars

UiNext ==
    \/ \E v \in TextValues : SetText(v)
    \/ \E v \in ColorValues : SetBgA(v)
    \/ \E v \in ColorValues : SetBgB(v)
    \/ \E v \in ColorValues : SetTextColor(v)
    \/ \E v \in FontValues : SetFontFamily(v)
    \/ \E f \in Files \cup {NoLogo} : HandleLogoFile(f)
    \/ \E i \in 1..Len(readers) : ReaderLoaded(i)
    \/ RemoveLogo
    \/ \E i \in 1..Len(loading) : ImageSettled(i)
    \/ \E i \in 1..Len(timers) : TimerFired(i)
    \/ FontsLoaded
    \/ FontsLoading
SpecUi == InitOf("ui") /\ [][UiNext]_vars

Spec == SpecUi

----------------------------------------------------------------------------
(* Properties *)

NonSpace(str) == SelectSeq(str, LAMBDA c : ~IsSpace(c))

WrapDone == wPc \in {"wrapped", "rewrapped"}

\* C1: every line wrapByWidth returns measures at most maxW, except a line
\* of one character that is by itself wider than maxW, wherever the
\* over-wide token stands in the text.
WrapLinesFit ==
    WrapDone =>
        \A i \in 1..Len(wLines) :
            \/ measureText(wFont, wLines[i]) <= wMaxW
            \/ Len(wLines[i]) = 1

\* C2: the lines wrapByWidth returns, concatenated in order with the
\* whitespace removed, are the non-whitespace characters of the text in
\* their order: nothing is lost, doubled or moved.
WrapDropsNothing ==
    WrapDone => NonSpace(Flatten(wLines)) = NonSpace(wText)

\* a text of one token that was split by characters into three lines or more
WrapForcedSplit ==
    /\ wPc = "wrapped"
    /\ Len(tokenizeWords(wText)) = 1
    /\ Len(wLines) >= 3

\* C8: each line wrapByWidth returns, wrapped again as a paragraph of its
\* own under the same maxW and measurer, comes back as that one line.
WrapIdempotent ==
    wPc = "rewrapped" =>
        \A i \in 1..Len(wLines) : wRewrapped[i] = <<wLines[i]>>

\* height of the paragraph wrapped at size s
ParaHeightAt(s) ==
    Len(wrapByWidth(Regular(s), pArgs.str, pArgs.maxW))
        * CeilLineHeight(s, ParagraphLineGapPct)

ParaFeasible == {s \in pArgs.minPx..pArgs.maxPx : ParaHeightAt(s) <= pArgs.maxH}

\* C3: fitFontBinaryParagraph returns the largest size of [minPx, maxPx] at
\* which the wrapped paragraph is at most maxH high, with the lines wrapped
\* at that size; when no size fits it returns minPx and the lines at minPx.
ParagraphFitLargest ==
    pPc = "done" =>
        /\ pResult.fontPx =
               (IF ParaFeasible = {} THEN pArgs.minPx ELSE SetMax(ParaFeasible))
        /\ pResult.fontPx >= pArgs.minPx
        /\ pResult.lineHeight = CeilLineHeight(pResult.fontPx, ParagraphLineGapPct)
        /\ pResult.lines = wrapByWidth(Regular(pResult.fontPx), pArgs.str, pArgs.maxW)

\* a fit whose answer lies strictly inside the range: larger sizes do not fit
ParagraphFitInside ==
    /\ pPc = "done"
    /\ pArgs.minPx < pResult.fontPx
    /\ pResult.fontPx < pArgs.maxPx
    /\ pResult.fontPx + 1 \notin ParaFeasible

RECURSIVE SumLineCounts(_)
\* over the rows, the larger of the two columns' line counts, summed
SumLineCounts(wrapped) ==
    IF wrapped = <<>> THEN 0
    ELSE Max2(Len(Head(wrapped).left), Len(Head(wrapped).right))
            + SumLineCounts(Tail(wrapped))

\* total height of wrapped rows under a line height: the rows and a gap
\* between each two
TableHeight(wrapped, lh) ==
    SumLineCounts(wrapped) * lh
        + (IF wrapped = <<>> THEN 0 ELSE (Len(wrapped) - 1) * RoundRowGap(lh))

\* total height of the table of tArgs at size s
TableHeightAt(s) ==
    LET lh == CeilLineHeight(s, TableLineGapPct)
    IN  TableHeight([i \in 1..Len(tArgs.rows) |->
                        WrapRow(s, tArgs.rows[i], tArgs.colLeftW, tArgs.colRightW, lh)],
                    lh)

TableFeasible == {s \in tArgs.minPx..tArgs.maxPx : TableHeightAt(s) <= tArgs.maxH}

\* C4: whenever some size of [minPx, maxPx] makes the table at most maxH high,
\* the result of fitFontBinaryTable is at most maxH high at its font size;
\* with no rows the result has no rows and height 0.
TableFitsWhenFeasible ==
    tPc = "done" =>
        /\ TableFeasible # {} =>
               /\ tResult.fontPx \in tArgs.minPx..tArgs.maxPx
               /\ tResult.lineHeight = CeilLineHeight(tResult.fontPx, TableLineGapPct)
               /\ TableHeight(tResult.wrapped, tResult.lineHeight) <= tArgs.maxH
        /\ tArgs.rows = <<>> =>
               /\ tResult.wrapped = <<>>
               /\ TableHeight(tResult.wrapped, tResult.lineHeight) = 0

\* a table of two rows that fits at some size and not at the largest
TableFitInside ==
    /\ tPc = "done"
    /\ Len(tArgs.rows) = 2
    /\ TableFeasible # {}
    /\ tArgs.maxPx \notin TableFeasible
    /\ tResult.fontPx > tArgs.minPx

\* C5: when no size fits, fitFontBinaryTable returns minPx, every key and
\* value wrapped at minPx, and each row's rowH is the larger line count of
\* the row times the line height, as when a size fits.
TableFallbackRowHeights ==
    (tPc = "done" /\ TableFeasible = {}) =>
        /\ tResult.fontPx = tArgs.minPx
        /\ Len(tResult.wrapped) = Len(tArgs.rows)
        /\ \A i \in 1..Len(tResult.wrapped) :
              /\ tResult.wrapped[i].left \in
                     {wrapByWidth(f, tArgs.rows[i].key, tArgs.colLeftW) :
                         f \in {Regular(tArgs.minPx), SemiBold(tArgs.minPx)}}
              /\ tResult.wrapped[i].right =
                     wrapByWidth(Regular(tArgs.minPx), tArgs.rows[i].value, tArgs.colRightW)
              /\ tResult.wrapped[i].rowH =
                     Max2(Len(tResult.wrapped[i].left), Len(tResult.wrapped[i].right))
                         * tResult.lineHeight

\* C6: in a pass over the presets, preview or download, a failure of drawOne
\* for one preset never keeps drawOne from being run for a later preset: when
\* the pass is over, drawOne was run for every preset (of the preview pass:
\* every preset with a canvas).
EveryPresetAttempted ==
    PassOver =>
        \A p \in Presets :
            (passKind = "preview" => p \in mounted) => attempted[p] # "no"

\* the trimmed non-empty lines of the raw text
RawLines == parseLines(rawText)

RECURSIVE FlattenPairs(_)
FlattenPairs(pairs) ==
    IF pairs = <<>> THEN <<>>
    ELSE Head(pairs).key \o Head(pairs).value \o FlattenPairs(Tail(pairs))

ExpectedLogo ==
    IF logoDataUrl # NoLogo /\ Decodes(logoDataUrl) THEN logoDataUrl ELSE NoLogo

\* C9: once every pending callback has run, logoImgRef.current is null if
\* logoDataUrl is null and else the image loaded from logoDataUrl: a late
\* onload of an earlier upload never brings back a removed or replaced logo.
LogoMatchesSelection ==
    Quiescent => logoImgRef = ExpectedLogo

\* C10: once every timer, image callback and render pass has run, the last
\* draw of every preview canvas used the current text, bgA, bgB, textColor
\* and fontFamily.
CanvasShowsCurrentInputs ==
    Quiescent =>
        \A p \in Presets :
            /\ canvas[p].text = text
            /\ canvas[p].bgA = bgA
            /\ canvas[p].bgB = bgB
            /\ canvas[p].textColor = textColor
            /\ canvas[p].fontFamily = fontFamily

====
